---- MODULE Spec2Model ----
(***************************************************************************)
(* Falcon-hunter chess (src/chess.py): the board, the two players, the     *)
(* turn and game state of ChessVar, and its two operations make_move and   *)
(* enter_fairy_piece, together with the move_legal rule of every piece.    *)
(*                                                                         *)
(* A square is the pair <<column, rank>> of what the caller wrote: the     *)
(* column character as a number ('a' = 1 .. 'h' = 8, 0 a character before  *)
(* 'a', 9 the character 'i') and the rank as the decimal number that       *)
(* follows it.  The code reads only the first digit of the rank            *)
(* (int(square[1])) but looks squares up by the whole string.              *)
(*                                                                         *)
(* A piece is written as its label ("P", "k", ...); a pawn whose           *)
(* _first_move has become False is written with a trailing "*".  An empty  *)
(* cell, Python's None, is "_".                                            *)
(***************************************************************************)
EXTENDS Integers, Sequences, FiniteSets, TLC

VARIABLES board, white, black, player_turn, game_state,
          call, ret, pending

vars == <<board, white, black, player_turn, game_state, call, ret, pending>>

\* the variables of the game itself (ChessVar and what it owns)
game == <<board, white, black, player_turn, game_state>>

----------------------------------------------------------------------------
(* Bounds of the callers' inputs *)

\* the largest column a caller writes ('a' = 1, so 9 is 'i')
MaxColumn == 9

\* the largest rank a caller writes (10 is the two-digit rank "10")
MaxRank == 10

----------------------------------------------------------------------------
(* Pieces *)

\* Python's None for a board cell or a looked-up piece
None == "_"

\* ChessPiece.__init__: white pieces get the upper-case label
ChessPiece(color, label) ==
    IF color = "white"
    THEN CASE label = "p" -> "P" [] label = "k" -> "K" [] label = "b" -> "B"
           [] label = "r" -> "R" [] label = "q" -> "Q" [] label = "g" -> "G"
           [] label = "f" -> "F" [] label = "h" -> "H"
    ELSE label

\* a pawn made with its first move already spent
Pawn_moved(color) == IF color = "white" THEN "P*" ELSE "p*"

\* Pawn.__init__ sets _first_move = True on top
Pawn(color)   == ChessPiece(color, "p")
Knight(color) == ChessPiece(color, "k")
Bishop(color) == ChessPiece(color, "b")
Rook(color)   == ChessPiece(color, "r")
Queen(color)  == ChessPiece(color, "q")
King(color)   == ChessPiece(color, "g")
Falcon(color) == ChessPiece(color, "f")
Hunter(color) == ChessPiece(color, "h")

\* ChessPiece.get_label
get_label(piece) ==
    CASE piece = "P*" -> "P" [] piece = "p*" -> "p" [] OTHER -> piece

\* ChessPiece.get_color
get_color(piece) ==
    IF get_label(piece) \in {"P", "K", "B", "R", "Q", "G", "F", "H"} THEN "white"
    ELSE IF get_label(piece) \in {"p", "k", "b", "r", "q", "g", "f", "h"} THEN "black"
    ELSE "none"

\* Pawn._first_move
first_move(piece) == piece \in {"P", "p"}

\* the piece with its _first_move flag set to flag (a pawn only)
WithFirstMove(piece, flag) ==
    IF get_label(piece) \in {"P", "p"}
    THEN IF flag THEN get_label(piece)
         ELSE IF get_label(piece) = "P" THEN "P*" ELSE "p*"
    ELSE piece

\* str.lower() of a label
Lower(l) ==
    CASE l = "P" -> "p" [] l = "K" -> "k" [] l = "B" -> "b" [] l = "R" -> "r"
      [] l = "Q" -> "q" [] l = "G" -> "g" [] l = "F" -> "f" [] l = "H" -> "h"
      [] OTHER -> l

----------------------------------------------------------------------------
(* Squares and the board: board[column][rank] for the keys 'a1' .. 'h8' *)

\* the keys of Board._layout
Keys == (1..8) \X (1..8)

\* square[0]
Column(sq) == sq[1]

\* int(square[1]): the first digit of the written rank
Row(sq) == IF sq[2] >= 10 THEN sq[2] \div 10 ELSE sq[2]

\* Board.__init__
BackRank(color) ==
    <<Rook(color), Knight(color), Bishop(color), Queen(color),
      King(color), Bishop(color), Knight(color), Rook(color)>>

InitialLayout ==
    [c \in 1..8 |->
        [r \in 1..8 |->
            CASE r = 8 -> BackRank("black")[c]
              [] r = 7 -> Pawn("black")
              [] r = 2 -> Pawn("white")
              [] r = 1 -> BackRank("white")[c]
              [] OTHER -> None]]

\* Board.get_current_piece_on_square: a square that is no key yields None
get_current_piece_on_square(b, sq) ==
    IF sq \in Keys THEN b[sq[1]][sq[2]] ELSE None

\* Board.update_move: squares that are no key are skipped; were start and
\* goal the same key, the later assignment (the piece) would stay
update_move(b, start_square, goal_square, piece) ==
    [c \in 1..8 |->
        [r \in 1..8 |->
            IF <<c, r>> = goal_square THEN piece
            ELSE IF <<c, r>> = start_square THEN None
            ELSE b[c][r]]]

\* Board.update_piece_entered
update_piece_entered(b, square, piece) ==
    [c \in 1..8 |->
        [r \in 1..8 |-> IF <<c, r>> = square THEN piece ELSE b[c][r]]]

\* Player.__init__: the pair <<_fairy_pieces, _captured_pieces>>
Player(color) == <<(<<Falcon(color), Hunter(color)>>), <<>>>>

\* Player.get_fairy_pieces
get_fairy_pieces(p) == p[1]

\* Player.get_captured_pieces
get_captured_pieces(p) == p[2]

\* a ledger that keeps only the piece captured last
add_captured_piece_assign(p, captured_piece) == <<p[1], <<captured_piece>>>>

\* Player.add_captured_piece
add_captured_piece(p, captured_piece) == <<p[1], Append(p[2], captured_piece)>>

\* list.remove drops the first equal element
RECURSIVE RemoveFirst(_, _)
RemoveFirst(s, x) ==
    IF s = <<>> THEN s
    ELSE IF Head(s) = x THEN Tail(s)
    ELSE <<Head(s)>> \o RemoveFirst(Tail(s), x)

\* an entry that takes the first piece of the reserve, whichever was asked for
remove_fairy_piece_first(p, fairy_piece) == <<Tail(p[1]), p[2]>>

\* an entry that leaves the piece in the reserve
remove_fairy_piece_mutant(p, fairy_piece) == p

\* Player.remove_fairy_piece
remove_fairy_piece(p, fairy_piece) == <<RemoveFirst(p[1], fairy_piece), p[2]>>

Abs(x) == IF x < 0 THEN -x ELSE x

----------------------------------------------------------------------------
(* Obstruction checks of ChessPiece.  A Python result is one of the        *)
(* strings "True", "False", "None" (a function that ends without return).  *)

\* one loop of diagonal_move_requires_jump, from the square <<col, row>> on,
\* stepping by <<dc, dr>>; note the loop condition joins the two edges by or
RECURSIVE DiagonalLoop(_, _, _, _, _, _)
DiagonalLoop(b, goal_square, col, row, dc, dr) ==
    IF ~ ((IF dr = 1 THEN row <= 8 ELSE row >= 1)
          \/ (IF dc = 1 THEN col <= 8 ELSE col >= 1))
    THEN "None"
    ELSE IF <<col, row>> = goal_square THEN "False"
    ELSE IF get_current_piece_on_square(b, <<col, row>>) # None THEN "True"
    ELSE DiagonalLoop(b, goal_square, col + dc, row + dr, dc, dr)

diagonal_move_requires_jump(start_square, goal_square, b) ==
    LET start_column == Column(start_square)
        start_row    == Row(start_square)
        goal_column  == Column(goal_square)
        goal_row     == Row(goal_square)
    IN  IF goal_row > start_row /\ goal_column > start_column
        THEN DiagonalLoop(b, goal_square, start_column + 1, start_row + 1, 1, 1)
        ELSE IF goal_row < start_row /\ goal_column > start_column
        THEN DiagonalLoop(b, goal_square, start_column + 1, start_row - 1, 1, -1)
        ELSE IF goal_row > start_row /\ goal_column < start_column
        THEN DiagonalLoop(b, goal_square, start_column - 1, start_row + 1, -1, 1)
        ELSE IF goal_row < start_row /\ goal_column < start_column
        THEN DiagonalLoop(b, goal_square, start_column - 1, start_row - 1, -1, -1)
        ELSE "None"

\* one loop of straight_move_requires_jump; "fall" is the loop ending without
\* a return, after which the code goes on to its next if
RECURSIVE StraightLoop(_, _, _, _, _, _)
StraightLoop(b, goal_square, col, row, dc, dr) ==
    IF ~ (CASE dr = 1  -> row <= 8
            [] dr = -1 -> row >= 1
            [] dc = -1 -> col >= 1
            [] OTHER   -> col <= 8)
    THEN "fall"
    ELSE IF <<col, row>> = goal_square THEN "False"
    ELSE IF get_current_piece_on_square(b, <<col, row>>) # None THEN "True"
    ELSE StraightLoop(b, goal_square, col + dc, row + dr, dc, dr)

\* a check that walks up and to the right only
straight_move_requires_jump_one_way(start_square, goal_square, b) ==
    IF Row(goal_square) > Row(start_square)
    THEN StraightLoop(b, goal_square, Column(start_square), Row(start_square) + 1, 0, 1)
    ELSE IF Column(goal_square) > Column(start_square)
    THEN StraightLoop(b, goal_square, Column(start_square) + 1, Row(start_square), 1, 0)
    ELSE "None"

straight_move_requires_jump(start_square, goal_square, b) ==
    LET start_column == Column(start_square)
        start_row    == Row(start_square)
        goal_column  == Column(goal_square)
        goal_row     == Row(goal_square)
        up    == IF goal_row > start_row
                 THEN StraightLoop(b, goal_square, start_column, start_row + 1, 0, 1)
                 ELSE "fall"
        down  == IF goal_row < start_row
                 THEN StraightLoop(b, goal_square, start_column, start_row - 1, 0, -1)
                 ELSE "fall"
        left  == IF goal_column < start_column
                 THEN StraightLoop(b, goal_square, start_column - 1, start_row, -1, 0)
                 ELSE "fall"
        right == IF goal_column > start_column
                 THEN StraightLoop(b, goal_square, start_column + 1, start_row, 1, 0)
                 ELSE "fall"
    IN  IF up # "fall" THEN up
        ELSE IF down # "fall" THEN down
        ELSE IF left # "fall" THEN left
        ELSE IF right # "fall" THEN right
        ELSE "None"

----------------------------------------------------------------------------
(* move_legal of each piece class.  The result is the returned value, the  *)
(* message printed and the piece's first_move flag after the call (only    *)
(* Pawn.move_legal assigns it).                                            *)

Legal(piece, r, msg) == [first_move |-> first_move(piece), out |-> msg, ret |-> r]

Pawn_move_legal(piece, start_square, goal_square, b) ==
    LET start_column == Column(start_square)
        start_row    == Row(start_square)
        goal_column  == Column(goal_square)
        goal_row     == Row(goal_square)
        piece_on_goal_square == get_current_piece_on_square(b, goal_square)
    IN  IF first_move(piece) /\ Abs(goal_row - start_row) > 2
        THEN Legal(piece, "False", "pawn: more than 2 on first turn")
        ELSE IF first_move(piece) /\ goal_column = start_column
                /\ straight_move_requires_jump(start_square, goal_square, b) = "True"
        THEN Legal(piece, "False", "pawn: jump")
        ELSE IF (get_color(piece) = "white" /\ goal_row < start_row)
                \/ (get_color(piece) = "black" /\ goal_row > start_row)
        THEN Legal(piece, "False", "pawn: backwards")
        ELSE IF goal_row = start_row
        THEN Legal(piece, "False", "pawn: sideways")
        ELSE IF ~ first_move(piece) /\ goal_column = start_column
                /\ Abs(goal_row - start_row) > 1
        THEN Legal(piece, "False", "pawn: more than 1 after first turn")
        ELSE IF start_column = goal_column /\ piece_on_goal_square # None
        THEN Legal(piece, "False", "pawn: straight onto occupied")
        ELSE IF Abs(start_column - goal_column) > 1
        THEN Legal(piece, "False", "pawn: more than one diagonally")
        ELSE IF Abs(start_column - goal_column) = 1 /\ piece_on_goal_square = None
        THEN Legal(piece, "False", "pawn: diagonal onto empty")
        ELSE [first_move |-> FALSE, out |-> "", ret |-> "True"]

\* a knight that knows one of its two shapes only
Knight_move_legal_one_shape(piece, start_square, goal_square) ==
    LET dc == Abs(Column(goal_square) - Column(start_square))
        dr == Abs(Row(goal_square) - Row(start_square))
    IN  IF dc = 1 /\ dr = 2 THEN Legal(piece, "True", "")
        ELSE Legal(piece, "False", "knight: not an L shape")


Knight_move_legal(piece, start_square, goal_square) ==
    LET dc == Abs(Column(goal_square) - Column(start_square))
        dr == Abs(Row(goal_square) - Row(start_square))
    IN  IF dc = 1 /\ dr = 2 THEN Legal(piece, "True", "")
        ELSE IF dc = 2 /\ dr = 1 THEN Legal(piece, "True", "")
        ELSE Legal(piece, "False", "knight: not an L shape")

\* a bishop that does not look at the squares it passes
Bishop_move_legal_jumping(piece, start_square, goal_square, b) ==
    LET dc == Abs(Column(goal_square) - Column(start_square))
        dr == Abs(Row(goal_square) - Row(start_square))
    IN  IF dc # dr THEN Legal(piece, "False", "bishop: not diagonal")
        ELSE Legal(piece, "True", "")

Bishop_move_legal(piece, start_square, goal_square, b) ==
    LET dc == Abs(Column(goal_square) - Column(start_square))
        dr == Abs(Row(goal_square) - Row(start_square))
    IN  IF dc # dr THEN Legal(piece, "False", "bishop: not diagonal")
        ELSE IF diagonal_move_requires_jump(start_square, goal_square, b) = "True"
        THEN Legal(piece, "False", "bishop: jump")
        ELSE Legal(piece, "True", "")

\* a rook that does not look at the squares it passes
Rook_move_legal_jumping(piece, start_square, goal_square, b) ==
    IF Column(goal_square) # Column(start_square) /\ Row(goal_square) # Row(start_square)
    THEN Legal(piece, "False", "rook: not straight")
    ELSE Legal(piece, "True", "")

Rook_move_legal(piece, start_square, goal_square, b) ==
    IF Column(goal_square) # Column(start_square) /\ Row(goal_square) # Row(start_square)
    THEN Legal(piece, "False", "rook: not straight")
    ELSE IF straight_move_requires_jump(start_square, goal_square, b) = "True"
    THEN Legal(piece, "False", "rook: jump")
    ELSE Legal(piece, "True", "")

\* a queen whose unobstructed straight move counts as refused
Queen_move_legal_strict(piece, start_square, goal_square, b) ==
    LET start_column == Column(start_square)
        start_row    == Row(start_square)
        goal_column  == Column(goal_square)
        goal_row     == Row(goal_square)
        diagonal == Abs(goal_column - start_column) = Abs(goal_row - start_row)
        straight == goal_column = start_column \/ goal_row = start_row
    IN  IF ~ diagonal /\ ~ straight
        THEN Legal(piece, "False", "queen: not a line")
        ELSE IF diagonal
                /\ diagonal_move_requires_jump(start_square, goal_square, b) = "True"
        THEN Legal(piece, "False", "queen: jump")
        ELSE IF straight
        THEN Legal(piece, "False", "queen: jump")
        ELSE Legal(piece, "True", "")

\* the final else belongs to the straight-line test, so a straight move that
\* needs no jump runs off the end of the function
Queen_move_legal(piece, start_square, goal_square, b) ==
    LET start_column == Column(start_square)
        start_row    == Row(start_square)
        goal_column  == Column(goal_square)
        goal_row     == Row(goal_square)
        diagonal == Abs(goal_column - start_column) = Abs(goal_row - start_row)
        straight == goal_column = start_column \/ goal_row = start_row
    IN  IF ~ diagonal /\ ~ straight
        THEN Legal(piece, "False", "queen: not a line")
        ELSE IF diagonal
                /\ diagonal_move_requires_jump(start_square, goal_square, b) = "True"
        THEN Legal(piece, "False", "queen: jump")
        ELSE IF straight
        THEN IF straight_move_requires_jump(start_square, goal_square, b) = "True"
             THEN Legal(piece, "False", "queen: jump")
             ELSE Legal(piece, "None", "")
        ELSE Legal(piece, "True", "")

\* a king that measures its step along the ranks only
King_move_legal_one_axis(piece, start_square, goal_square) ==
    IF Abs(Column(goal_square) - Column(start_square)) > 1
    THEN Legal(piece, "False", "king: more than one square")
    ELSE Legal(piece, "True", "")

King_move_legal(piece, start_square, goal_square) ==
    IF Abs(Column(goal_square) - Column(start_square)) > 1
       \/ Abs(Row(goal_square) - Row(start_square)) > 1
    THEN Legal(piece, "False", "king: more than one square")
    ELSE Legal(piece, "True", "")

\* a falcon that applies White's directions to both colours
Falcon_move_legal_white_rules(piece, start_square, goal_square, b) ==
    LET start_column == Column(start_square)
        start_row    == Row(start_square)
        goal_column  == Column(goal_square)
        goal_row     == Row(goal_square)
        backward == goal_row < start_row
        forward  == goal_row > start_row
    IN  IF start_row = goal_row
        THEN Legal(piece, "False", "falcon: sideways")
        ELSE IF backward /\ goal_column # start_column
        THEN Legal(piece, "False", "falcon: only straight backwards")
        ELSE IF forward
                /\ Abs(goal_column - start_column) # Abs(goal_row - start_row)
        THEN Legal(piece, "False", "falcon: only diagonally forward")
        ELSE IF backward
        THEN IF straight_move_requires_jump(start_square, goal_square, b) = "True"
             THEN Legal(piece, "False", "falcon: jump")
             ELSE Legal(piece, "True", "")
        ELSE IF diagonal_move_requires_jump(start_square, goal_square, b) = "True"
             THEN Legal(piece, "False", "falcon: jump")
             ELSE Legal(piece, "True", "")

\* the white and the black half of Falcon.move_legal differ only in the
\* direction of the rank comparisons: back is toward the own home rank
Falcon_move_legal(piece, start_square, goal_square, b) ==
    LET start_column == Column(start_square)
        start_row    == Row(start_square)
        goal_column  == Column(goal_square)
        goal_row     == Row(goal_square)
        backward == IF get_color(piece) = "white" THEN goal_row < start_row
                    ELSE goal_row > start_row
        forward  == IF get_color(piece) = "white" THEN goal_row > start_row
                    ELSE goal_row < start_row
    IN  IF start_row = goal_row
        THEN Legal(piece, "False", "falcon: sideways")
        ELSE IF get_color(piece) \notin {"white", "black"}
        THEN Legal(piece, "None", "")
        ELSE IF backward /\ goal_column # start_column
        THEN Legal(piece, "False", "falcon: only straight backwards")
        ELSE IF ~ backward /\ forward
                /\ Abs(goal_column - start_column) # Abs(goal_row - start_row)
        THEN Legal(piece, "False", "falcon: only diagonally forward")
        ELSE IF backward
        THEN IF straight_move_requires_jump(start_square, goal_square, b) = "True"
             THEN Legal(piece, "False", "falcon: jump")
             ELSE Legal(piece, "True", "")
        ELSE IF forward
        THEN IF diagonal_move_requires_jump(start_square, goal_square, b) = "True"
             THEN Legal(piece, "False", "falcon: jump")
             ELSE Legal(piece, "True", "")
        ELSE Legal(piece, "None", "")

\* a hunter that applies White's directions to both colours
Hunter_move_legal_white_rules(piece, start_square, goal_square, b) ==
    LET start_column == Column(start_square)
        start_row    == Row(start_square)
        goal_column  == Column(goal_square)
        goal_row     == Row(goal_square)
        backward == goal_row < start_row
        forward  == goal_row > start_row
    IN  IF start_row = goal_row
        THEN Legal(piece, "False", "hunter: sideways")
        ELSE IF forward /\ goal_column # start_column
        THEN Legal(piece, "False", "hunter: only straight forward")
        ELSE IF backward
                /\ Abs(goal_column - start_column) # Abs(goal_row - start_row)
        THEN Legal(piece, "False", "hunter: only diagonally backward")
        ELSE IF forward
        THEN IF straight_move_requires_jump(start_square, goal_square, b) = "True"
             THEN Legal(piece, "False", "hunter: jump")
             ELSE Legal(piece, "True", "")
        ELSE IF diagonal_move_requires_jump(start_square, goal_square, b) = "True"
             THEN Legal(piece, "False", "hunter: jump")
             ELSE Legal(piece, "True", "")

\* a hunter that moves as the falcon does
Hunter_move_legal_as_falcon(piece, start_square, goal_square, b) ==
    Falcon_move_legal(piece, start_square, goal_square, b)

Hunter_move_legal(piece, start_square, goal_square, b) ==
    LET start_column == Column(start_square)
        start_row    == Row(start_square)
        goal_column  == Column(goal_square)
        goal_row     == Row(goal_square)
        backward == IF get_color(piece) = "white" THEN goal_row < start_row
                    ELSE goal_row > start_row
        forward  == IF get_color(piece) = "white" THEN goal_row > start_row
                    ELSE goal_row < start_row
    IN  IF start_row = goal_row
        THEN Legal(piece, "False", "hunter: sideways")
        ELSE IF get_color(piece) \notin {"white", "black"}
        THEN Legal(piece, "None", "")
        ELSE IF forward /\ goal_column # start_column
        THEN Legal(piece, "False", "hunter: only straight forward")
        ELSE IF ~ forward /\ backward
                /\ Abs(goal_column - start_column) # Abs(goal_row - start_row)
        THEN Legal(piece, "False", "hunter: only diagonally backward")
        ELSE IF forward
        THEN IF straight_move_requires_jump(start_square, goal_square, b) = "True"
             THEN Legal(piece, "False", "hunter: jump")
             ELSE Legal(piece, "True", "")
        ELSE IF backward
        THEN IF diagonal_move_requires_jump(start_square, goal_square, b) = "True"
             THEN Legal(piece, "False", "hunter: jump")
             ELSE Legal(piece, "True", "")
        ELSE Legal(piece, "None", "")

\* the dynamic dispatch piece.move_legal(...) on the piece's class; make_move
\* leaves out the board argument for the labels 'k' and 'g'
move_legal(piece, start_square, goal_square, b) ==
    LET l == Lower(get_label(piece))
    IN  CASE l = "p" -> Pawn_move_legal(piece, start_square, goal_square, b)
          [] l = "k" -> Knight_move_legal(piece, start_square, goal_square)
          [] l = "b" -> Bishop_move_legal(piece, start_square, goal_square, b)
          [] l = "r" -> Rook_move_legal(piece, start_square, goal_square, b)
          [] l = "q" -> Queen_move_legal(piece, start_square, goal_square, b)
          [] l = "g" -> King_move_legal(piece, start_square, goal_square)
          [] l = "f" -> Falcon_move_legal(piece, start_square, goal_square, b)
          [] OTHER   -> Hunter_move_legal(piece, start_square, goal_square, b)

----------------------------------------------------------------------------
(* ChessVar *)

\* ChessVar.__init__
NewGame ==
    [black |-> Player("black"),
     board |-> InitialLayout,
     game_state |-> "UNFINISHED",
     player_turn |-> 1,
     white |-> Player("white")]

\* a turn that passes to Black and then stays there
go_to_next_turn_mutant(g) == [g EXCEPT !.player_turn = -1]

\* ChessVar.go_to_next_turn
go_to_next_turn(g) == [g EXCEPT !.player_turn = @ * (-1)]

\* a test that knows one winner only
game_over_mutant(g) == g.game_state = "BLACK_WON"

\* the test "self._game_state != 'UNFINISHED'" that opens both operations
game_over(g) == g.game_state # "UNFINISHED"

\* a return False that first passes the turn
Reject_mutant(g, msg) == [g |-> [g EXCEPT !.player_turn = @ * (-1)], out |-> msg, ret |-> "False"]

\* a call that returns False at one of its checks, the game being g then
Reject(g, msg) == [g |-> g, out |-> msg, ret |-> "False"]

\* the capture recorded before the test for a piece of the mover's own colour
CompleteMove_capture_first(g, b, piece, start_square, goal_square) ==
    LET g1 == [g EXCEPT !.board = b]
        piece_on_goal_square == get_current_piece_on_square(b, goal_square)
        g2 == IF piece_on_goal_square = None THEN g1
              ELSE IF get_color(piece_on_goal_square) = "white"
              THEN [g1 EXCEPT !.white = add_captured_piece(@, piece_on_goal_square)]
              ELSE IF get_color(piece_on_goal_square) = "black"
              THEN [g1 EXCEPT !.black = add_captured_piece(@, piece_on_goal_square)]
              ELSE g1
        g3 == IF get_label(piece_on_goal_square) = "g"
              THEN [g2 EXCEPT !.game_state = "WHITE_WON"]
              ELSE IF get_label(piece_on_goal_square) = "G"
              THEN [g2 EXCEPT !.game_state = "BLACK_WON"]
              ELSE g2
        g4 == [g3 EXCEPT !.board = update_move(b, start_square, goal_square, piece)]
    IN  IF piece_on_goal_square # None
           /\ get_color(piece_on_goal_square) = "white" /\ g.player_turn = 1
        THEN Reject(g2, "goal holds a white piece")
        ELSE IF piece_on_goal_square # None
                /\ get_color(piece_on_goal_square) = "black" /\ g.player_turn = -1
        THEN Reject(g2, "goal holds a black piece")
        ELSE [g |-> go_to_next_turn(g4),
              out |-> IF g3.game_state # "UNFINISHED" THEN "king captured"
                      ELSE IF piece_on_goal_square # None THEN "captured a piece"
                      ELSE "board",
              ret |-> "True"]

\* the king test made with the knight's label
CompleteMove_knight_for_king(g, b, piece, start_square, goal_square) ==
    LET g1 == [g EXCEPT !.board = b]
        piece_on_goal_square == get_current_piece_on_square(b, goal_square)
        g2 == IF piece_on_goal_square = None THEN g1
              ELSE IF get_color(piece_on_goal_square) = "white"
              THEN [g1 EXCEPT !.white = add_captured_piece(@, piece_on_goal_square)]
              ELSE IF get_color(piece_on_goal_square) = "black"
              THEN [g1 EXCEPT !.black = add_captured_piece(@, piece_on_goal_square)]
              ELSE g1
        g3 == IF get_label(piece_on_goal_square) = "k"
              THEN [g2 EXCEPT !.game_state = "WHITE_WON"]
              ELSE IF get_label(piece_on_goal_square) = "K"
              THEN [g2 EXCEPT !.game_state = "BLACK_WON"]
              ELSE g2
        g4 == [g3 EXCEPT !.board = update_move(b, start_square, goal_square, piece)]
    IN  IF piece_on_goal_square # None
           /\ get_color(piece_on_goal_square) = "white" /\ g.player_turn = 1
        THEN Reject(g1, "goal holds a white piece")
        ELSE IF piece_on_goal_square # None
                /\ get_color(piece_on_goal_square) = "black" /\ g.player_turn = -1
        THEN Reject(g1, "goal holds a black piece")
        ELSE [g |-> go_to_next_turn(g4),
              out |-> IF g3.game_state # "UNFINISHED" THEN "king captured"
                      ELSE IF piece_on_goal_square # None THEN "captured a piece"
                      ELSE "board",
              ret |-> "True"]

\* the captured piece recorded in the ledger of the side that took it
CompleteMove_wrong_ledger(g, b, piece, start_square, goal_square) ==
    LET g1 == [g EXCEPT !.board = b]
        piece_on_goal_square == get_current_piece_on_square(b, goal_square)
        g2 == IF piece_on_goal_square = None THEN g1
              ELSE IF get_color(piece_on_goal_square) = "white"
              THEN [g1 EXCEPT !.black = add_captured_piece(@, piece_on_goal_square)]
              ELSE IF get_color(piece_on_goal_square) = "black"
              THEN [g1 EXCEPT !.white = add_captured_piece(@, piece_on_goal_square)]
              ELSE g1
        g3 == IF get_label(piece_on_goal_square) = "g"
              THEN [g2 EXCEPT !.game_state = "WHITE_WON"]
              ELSE IF get_label(piece_on_goal_square) = "G"
              THEN [g2 EXCEPT !.game_state = "BLACK_WON"]
              ELSE g2
        g4 == [g3 EXCEPT !.board = update_move(b, start_square, goal_square, piece)]
    IN  IF piece_on_goal_square # None
           /\ get_color(piece_on_goal_square) = "white" /\ g.player_turn = 1
        THEN Reject(g1, "goal holds a white piece")
        ELSE IF piece_on_goal_square # None
                /\ get_color(piece_on_goal_square) = "black" /\ g.player_turn = -1
        THEN Reject(g1, "goal holds a black piece")
        ELSE [g |-> go_to_next_turn(g4),
              out |-> IF g3.game_state # "UNFINISHED" THEN "king captured"
                      ELSE IF piece_on_goal_square # None THEN "captured a piece"
                      ELSE "board",
              ret |-> "True"]

\* ChessVar.make_move, the part after move_legal has not returned False:
\* b is the board with the moving piece as move_legal left it
CompleteMove(g, b, piece, start_square, goal_square) ==
    LET g1 == [g EXCEPT !.board = b]
        piece_on_goal_square == get_current_piece_on_square(b, goal_square)
        g2 == IF piece_on_goal_square = None THEN g1
              ELSE IF get_color(piece_on_goal_square) = "white"
              THEN [g1 EXCEPT !.white = add_captured_piece(@, piece_on_goal_square)]
              ELSE IF get_color(piece_on_goal_square) = "black"
              THEN [g1 EXCEPT !.black = add_captured_piece(@, piece_on_goal_square)]
              ELSE g1
        g3 == IF get_label(piece_on_goal_square) = "g"
              THEN [g2 EXCEPT !.game_state = "WHITE_WON"]
              ELSE IF get_label(piece_on_goal_square) = "G"
              THEN [g2 EXCEPT !.game_state = "BLACK_WON"]
              ELSE g2
        g4 == [g3 EXCEPT !.board = update_move(b, start_square, goal_square, piece)]
    IN  IF piece_on_goal_square # None
           /\ get_color(piece_on_goal_square) = "white" /\ g.player_turn = 1
        THEN Reject(g1, "goal holds a white piece")
        ELSE IF piece_on_goal_square # None
                /\ get_color(piece_on_goal_square) = "black" /\ g.player_turn = -1
        THEN Reject(g1, "goal holds a black piece")
        ELSE [g |-> go_to_next_turn(g4),
              out |-> IF g3.game_state # "UNFINISHED" THEN "king captured"
                      ELSE IF piece_on_goal_square # None THEN "captured a piece"
                      ELSE "board",
              ret |-> "True"]

\* a make_move that lets either side move any piece
make_move_any_colour(g, start_square, goal_square) ==
    LET column == Column(goal_square)
        row    == Row(goal_square)
        piece_on_start_square == get_current_piece_on_square(g.board, start_square)
        legal  == move_legal(piece_on_start_square, start_square, goal_square, g.board)
        piece  == WithFirstMove(piece_on_start_square, legal.first_move)
        b      == update_piece_entered(g.board, start_square, piece)
    IN  IF game_over(g) THEN Reject(g, "game over")
        ELSE IF start_square = goal_square THEN Reject(g, "square to itself")
        ELSE IF column < 1 \/ column > 8 THEN Reject(g, "column out of bounds")
        ELSE IF row < 1 \/ row > 8 THEN Reject(g, "row out of bounds")
        ELSE IF piece_on_start_square = None THEN Reject(g, "start square empty")
        ELSE IF legal.ret = "False" THEN Reject(g, legal.out)
        ELSE CompleteMove(g, b, piece, start_square, goal_square)

\* ChessVar.make_move
make_move(g, start_square, goal_square) ==
    LET column == Column(goal_square)
        row    == Row(goal_square)
        piece_on_start_square == get_current_piece_on_square(g.board, start_square)
        legal  == move_legal(piece_on_start_square, start_square, goal_square, g.board)
        piece  == WithFirstMove(piece_on_start_square, legal.first_move)
        b      == update_piece_entered(g.board, start_square, piece)
    IN  IF game_over(g) THEN Reject(g, "game over")
        ELSE IF start_square = goal_square THEN Reject(g, "square to itself")
        ELSE IF column < 1 \/ column > 8 THEN Reject(g, "column out of bounds")
        ELSE IF row < 1 \/ row > 8 THEN Reject(g, "row out of bounds")
        ELSE IF piece_on_start_square = None THEN Reject(g, "start square empty")
        ELSE IF get_color(piece_on_start_square) = "black" /\ g.player_turn = 1
        THEN Reject(g, "white's turn")
        ELSE IF get_color(piece_on_start_square) = "white" /\ g.player_turn = -1
        THEN Reject(g, "black's turn")
        ELSE IF legal.ret = "False" THEN Reject(g, legal.out)
        ELSE CompleteMove(g, b, piece, start_square, goal_square)

\* the pieces of a list whose label matches, in list order
RECURSIVE WithLabel(_, _)
WithLabel(pieces, label) ==
    IF pieces = <<>> THEN <<>>
    ELSE (IF get_label(Head(pieces)) = label THEN <<Head(pieces)>> ELSE <<>>)
         \o WithLabel(Tail(pieces), label)

\* a count that takes the fairy pieces for major pieces too
RECURSIVE CountMajor_with_fairy(_)
\* a count that takes the pawns for major pieces too
RECURSIVE CountMajor_with_pawns(_)
CountMajor_with_pawns(captured_pieces) ==
    IF captured_pieces = <<>> THEN 0
    ELSE (IF Lower(get_label(Head(captured_pieces))) \in {"q", "r", "b", "k", "p"}
          THEN 1 ELSE 0)
         + CountMajor_with_pawns(Tail(captured_pieces))

CountMajor_with_fairy(captured_pieces) ==
    IF captured_pieces = <<>> THEN 0
    ELSE (IF Lower(get_label(Head(captured_pieces))) \in {"q", "r", "b", "k", "f", "h"}
          THEN 1 ELSE 0)
         + CountMajor_with_fairy(Tail(captured_pieces))

\* a count that takes the king's label 'g' for the knight's 'k'
RECURSIVE CountMajor_mutant(_)
CountMajor_mutant(captured_pieces) ==
    IF captured_pieces = <<>> THEN 0
    ELSE (IF Lower(get_label(Head(captured_pieces))) \in {"q", "r", "b", "g"} THEN 1 ELSE 0)
         + CountMajor_mutant(Tail(captured_pieces))

\* the count of captured pieces whose lower-case label is a major piece label
RECURSIVE CountMajor(_)
CountMajor(captured_pieces) ==
    IF captured_pieces = <<>> THEN 0
    ELSE (IF Lower(get_label(Head(captured_pieces))) \in {"q", "r", "b", "k"} THEN 1 ELSE 0)
         + CountMajor(Tail(captured_pieces))

\* ChessVar.enter_fairy_piece
enter_fairy_piece(g, piece_type, square) ==
    LET square_row == Row(square)
        mover == IF g.player_turn = 1 THEN g.white ELSE g.black
        available_fairy_pieces == get_fairy_pieces(mover)
        captured_pieces == get_captured_pieces(mover)
        num_major_pieces == CountMajor(captured_pieces)
        piece_on_square == get_current_piece_on_square(g.board, square)
        found == WithLabel(available_fairy_pieces, piece_type)
        fairy_piece == found[Len(found)]
        g1 == [g EXCEPT !.board = update_piece_entered(@, square, fairy_piece)]
        g2 == IF g.player_turn = 1
              THEN [g1 EXCEPT !.white = remove_fairy_piece(@, fairy_piece)]
              ELSE [g1 EXCEPT !.black = remove_fairy_piece(@, fairy_piece)]
    IN  IF game_over(g) THEN Reject(g, "game over")
        ELSE IF Len(available_fairy_pieces) = 2 /\ num_major_pieces = 0
        THEN Reject(g, "no major piece lost yet")
        ELSE IF Len(available_fairy_pieces) = 1 /\ num_major_pieces = 1
        THEN Reject(g, "no second major piece lost yet")
        ELSE IF piece_on_square # None THEN Reject(g, "square occupied")
        ELSE IF g.player_turn = 1 /\ square_row > 2
        THEN Reject(g, "outside rows 1 and 2")
        ELSE IF g.player_turn = 1 /\ piece_type # "F" /\ piece_type # "H"
        THEN Reject(g, "white cannot enter a black fairy piece")
        ELSE IF g.player_turn # 1 /\ square_row < 7
        THEN Reject(g, "outside rows 7 and 8")
        ELSE IF g.player_turn # 1 /\ piece_type # "f" /\ piece_type # "h"
        THEN Reject(g, "black cannot enter a white fairy piece")
        ELSE IF Len(available_fairy_pieces) = 0
        THEN Reject(g, "no fairy pieces left")
        ELSE IF found = <<>> THEN Reject(g, "fairy piece not available")
        ELSE [g |-> go_to_next_turn(g2), out |-> "board", ret |-> "True"]

----------------------------------------------------------------------------
(* The callers.  A game is driven by calls of make_move and                *)
(* enter_fairy_piece, one at a time (main's loop, the unit tests).  A call *)
(* is the tuple <<operation, piece_type, start_square, goal_square>>; for  *)
(* enter_fairy_piece the square is the last component.  A behaviour        *)
(* replays a prefix of one of the scripted games below and then makes one  *)
(* call with freely chosen arguments.                                      *)

M(c1, r1, c2, r2) == <<"make_move", "-", <<c1, r1>>, <<c2, r2>>>>

E(t, c, r) == <<"enter_fairy_piece", t, <<0, 0>>, <<c, r>>>>

NoCall == <<"none", "-", <<0, 0>>, <<0, 0>>>>

\* the calls of TestChess.test_fairy_pieces, in order
FairyGame ==
    <<M(4, 2, 4, 4), M(7, 8, 6, 6), M(3, 1, 6, 4), M(5, 7, 5, 6),
      M(6, 4, 3, 7), E("f", 7, 8), M(6, 6, 7, 4), M(3, 7, 2, 8),
      E("F", 7, 8), E("f", 6, 8), E("f", 1, 6), E("f", 7, 8),
      E("F", 3, 1), M(2, 1, 3, 3), M(1, 8, 2, 8), E("f", 4, 2),
      E("F", 7, 2), E("F", 1, 3), E("F", 4, 2), M(4, 2, 6, 4),
      M(7, 8, 7, 5), M(7, 8, 5, 6), E("h", 1, 8), M(6, 7, 6, 5),
      M(4, 2, 4, 3), M(4, 2, 3, 1), M(4, 2, 2, 4), M(4, 2, 8, 6),
      M(7, 7, 8, 6), E("H", 3, 1), M(4, 1, 4, 3), M(6, 8, 3, 5),
      M(4, 4, 3, 5), E("H", 3, 7), E("f", 3, 7), E("h", 1, 7),
      E("h", 3, 6), E("h", 6, 7), M(6, 7, 6, 6), M(4, 3, 6, 5),
      M(5, 6, 6, 5), E("h", 4, 2), E("F", 4, 2), E("H", 5, 1),
      E("H", 7, 3), E("H", 4, 2), E("h", 3, 7), M(6, 7, 4, 5),
      M(6, 7, 7, 6), M(6, 7, 6, 8), M(6, 7, 6, 6), E("H", 4, 1),
      M(4, 2, 5, 3), M(4, 2, 4, 1), M(4, 2, 4, 7), M(6, 6, 3, 6),
      M(7, 8, 6, 8), M(7, 8, 2, 3), M(3, 3, 2, 5), M(2, 3, 2, 5),
      M(4, 7, 4, 8), M(5, 8, 4, 8)>>

\* a white knight takes the pawn c7, the rook a8 and then the king e8;
\* Black goes on calling after the game is over
WhiteWinsGame ==
    <<M(2, 1, 3, 3), M(1, 7, 1, 6), M(3, 3, 4, 5), M(1, 6, 1, 5),
      M(4, 5, 3, 7), M(1, 5, 1, 4), M(3, 7, 1, 8), M(1, 4, 1, 3),
      M(1, 8, 3, 7), M(8, 7, 8, 6), M(3, 7, 5, 8), E("f", 1, 8),
      M(4, 8, 5, 8)>>

\* Black tries to move first, twice; then a black knight takes the pawn c2
\* and the king e1, and White goes on calling after the game is over
BlackWinsGame ==
    <<M(1, 7, 1, 6), M(1, 7, 1, 6), M(1, 2, 1, 3), M(2, 8, 3, 6),
      M(1, 3, 1, 4), M(3, 6, 4, 4), M(1, 4, 1, 5), M(4, 4, 3, 2),
      M(1, 5, 1, 6), M(3, 2, 5, 1), M(4, 1, 5, 1), E("F", 3, 2)>>

\* a game in which White tries its b-pawn on its own knight before the pawn
\* has moved, and then tries the pawn's two squares
PawnGame ==
    <<M(2, 1, 3, 3), M(1, 7, 1, 6), M(2, 2, 3, 3), M(2, 2, 2, 4),
      M(2, 2, 2, 3), M(1, 6, 1, 5)>>

\* a game in which White's knight takes a rook, a bishop and then the king of
\* Black, who has brought out a bishop and entered its falcon and its hunter
BlackLosesGame ==
    <<M(2, 1, 3, 3), M(5, 7, 5, 6), M(3, 3, 2, 5), M(6, 8, 3, 5),
      M(2, 5, 3, 7), M(1, 7, 1, 6), M(3, 7, 1, 8), E("f", 6, 8),
      M(1, 8, 2, 6), M(1, 6, 1, 5), M(2, 6, 3, 8), E("h", 1, 7),
      M(3, 8, 4, 6), M(8, 7, 8, 6), M(4, 6, 5, 8)>>

\* a game in which rooks, falcons, a queen and a hunter come to stand in the
\* open
OpenGame ==
    <<M(1, 2, 1, 4), M(1, 7, 1, 5), M(1, 1, 1, 3), M(1, 8, 1, 6),
      M(1, 3, 4, 3), M(1, 6, 4, 6), M(4, 3, 4, 6), M(3, 7, 4, 6),
      E("F", 1, 2), E("f", 1, 7), M(1, 2, 4, 5), M(1, 7, 3, 5),
      M(5, 2, 5, 3), M(2, 8, 3, 6), M(4, 1, 7, 4), M(8, 7, 8, 6),
      M(4, 5, 3, 6), M(2, 7, 3, 6), M(8, 2, 8, 3), E("h", 2, 7),
      M(8, 3, 8, 4), M(2, 7, 2, 3), M(7, 2, 7, 3)>>

Scripts ==
    <<FairyGame, WhiteWinsGame, BlackWinsGame, PawnGame, BlackLosesGame,
      OpenGame>>

\* the squares a caller writes: every square of the board, and off the
\* board the columns before 'a' and after 'h' on the ranks 1 and 8, and the
\* ranks 0 and above 8 in the columns 'a' and 'e'
InputSquare(sq) ==
    \/ sq \in Keys
    \/ (sq[1] < 1 \/ sq[1] > 8) /\ (sq[2] = 1 \/ sq[2] = 8)
    \/ (sq[2] < 1 \/ sq[2] > 8) /\ (sq[1] = 1 \/ sq[1] = 5)

\* the game as one value
Game ==
    [black |-> black, board |-> board, game_state |-> game_state,
     player_turn |-> player_turn, white |-> white]

SetGame(g) ==
    /\ board' = g.board
    /\ white' = g.white
    /\ black' = g.black
    /\ player_turn' = g.player_turn
    /\ game_state' = g.game_state

Init ==
    /\ board = NewGame.board
    /\ white = NewGame.white
    /\ black = NewGame.black
    /\ player_turn = NewGame.player_turn
    /\ game_state = NewGame.game_state
    /\ call = NoCall
    /\ ret = "None"
    /\ pending \in {<<i, 1>> : i \in 1..Len(Scripts)}

\* the caller issues call c: the next one of the script it replays, or, as
\* its last call, any
Issue(c) ==
    /\ \/ /\ pending[2] <= Len(Scripts[pending[1]])
          /\ c = Scripts[pending[1]][pending[2]]
          /\ pending' = <<pending[1], pending[2] + 1>>
       \/ pending' = <<0, 0>>
    /\ call' = c

\* a call of make_move, from the call to its return
MakeMove ==
    /\ pending[1] > 0
    /\ \E c1 \in 0..MaxColumn, r1 \in 0..MaxRank, c2 \in 0..MaxColumn, r2 \in 0..MaxRank :
        /\ InputSquare(<<c1, r1>>)
        /\ InputSquare(<<c2, r2>>)
        /\ Issue(M(c1, r1, c2, r2))
        /\ LET r == make_move(Game, <<c1, r1>>, <<c2, r2>>)
           IN  /\ SetGame(r.g)
               /\ ret' = r.ret

\* a call of enter_fairy_piece, from the call to its return
EnterFairyPiece ==
    /\ pending[1] > 0
    /\ \E piece_type \in {"F", "H", "f", "h", "x"}, c \in 0..MaxColumn, r \in 0..MaxRank :
        /\ InputSquare(<<c, r>>)
        /\ Issue(E(piece_type, c, r))
        /\ LET res == enter_fairy_piece(Game, piece_type, <<c, r>>)
           IN  /\ SetGame(res.g)
               /\ ret' = res.ret

Next ==
    \/ MakeMove
    \/ EnterFairyPiece

Spec == Init /\ [][Next]_vars

----------------------------------------------------------------------------
(* Properties.  A step of Next is one call: call' holds its arguments,     *)
(* ret' its return value, the unprimed variables the game before it.       *)

\* which piece stands on which square: the labels of the 64 cells
Placement(b) == [c \in 1..8 |-> [r \in 1..8 |-> get_label(b[c][r])]]

\* the player object of the side to move, and of the other side
Mover == IF player_turn = 1 THEN white ELSE black

Waiting == IF player_turn = 1 THEN black ELSE white

MoverColor == IF player_turn = 1 THEN "white" ELSE "black"

\* the number of queens, rooks, bishops and knights in a captured ledger
Majors(captured) ==
    Cardinality({i \in 1..Len(captured) :
                    get_label(captured[i]) \in {"Q", "R", "B", "K", "q", "r", "b", "k"}})

\* the two home ranks of the side to move
HomeRanks == IF player_turn = 1 THEN {1, 2} ELSE {7, 8}

\* the arguments of the call are an entry the side to move may ask for:
\* one of its own fairy pieces still in its reserve, for an empty square of
\* its two home ranks
ValidEntry ==
    /\ call'[1] = "enter_fairy_piece"
    /\ \E i \in 1..Len(get_fairy_pieces(Mover)) :
          /\ get_label(get_fairy_pieces(Mover)[i]) = call'[2]
          /\ get_color(get_fairy_pieces(Mover)[i]) = MoverColor
    /\ call'[4] \in Keys
    /\ call'[4][2] \in HomeRanks
    /\ board[call'[4][1]][call'[4][2]] = None

\* the side to move has lost enough major pieces for its next entry
Eligible ==
    \/ Majors(get_captured_pieces(Mover)) >= 1 /\ Len(get_fairy_pieces(Mover)) = 2
    \/ Majors(get_captured_pieces(Mover)) >= 2 /\ Len(get_fairy_pieces(Mover)) = 1

\* C1: a make_move that returns False leaves which piece stands on which
\* square, both reserves, both captured ledgers, the side to move and the game
\* state as they were, and the same call made again is rejected again, for
\* the same reason, and changes nothing at all.
C1_RejectedMoveChangesNothing ==
    [][(call'[1] = "make_move" /\ ret' = "False") =>
          /\ Placement(board') = Placement(board)
          /\ white' = white /\ black' = black
          /\ player_turn' = player_turn /\ game_state' = game_state
          /\ make_move(Game', call'[3], call'[4])
                = [g |-> Game', out |-> make_move(Game, call'[3], call'[4]).out, ret |-> "False"]]_vars

\* a move of the side to move onto a square that holds one of its own pieces
\* has just been rejected
C1_Witness ==
    /\ call[1] = "make_move" /\ ret = "False" /\ game_state = "UNFINISHED"
    /\ call[3] \in Keys /\ call[4] \in Keys /\ call[3] # call[4]
    /\ get_current_piece_on_square(board, call[3]) # None
    /\ get_color(get_current_piece_on_square(board, call[3])) = MoverColor
    /\ get_current_piece_on_square(board, call[4]) # None
    /\ get_color(get_current_piece_on_square(board, call[4])) = MoverColor

\* C2: once the game state is WHITE_WON or BLACK_WON, every make_move and every
\* enter_fairy_piece returns False and changes nothing; the game state never
\* goes back to UNFINISHED and never passes to the other winner.
C2_WinIsFinal ==
    [][game_state # "UNFINISHED" =>
          /\ ret' = "False"
          /\ UNCHANGED game]_vars

\* after White's win a move and an entry have both been tried and rejected
C2_Witness ==
    /\ game_state = "WHITE_WON"
    /\ call[1] = "enter_fairy_piece" /\ ret = "False"
    /\ pending[1] = 0

\* C3: White is to move before the first call; a call that returns True,
\* make_move or enter_fairy_piece, passes the turn to the other side, and a
\* call that returns False leaves the turn where it was.
C3_TurnAlternation ==
    [][/\ call = NoCall => player_turn = 1
       /\ player_turn \in {1, -1}
       /\ ret' \in {"True", "False"}
       /\ ret' = "True" => player_turn' = -player_turn
       /\ ret' = "False" => player_turn' = player_turn]_vars

\* Black has just entered a fairy piece and the turn is White's
C3_Witness ==
    /\ call[1] = "enter_fairy_piece" /\ ret = "True" /\ player_turn = 1

\* C4: an accepted make_move onto the square of the opponent's king sets the
\* game state to the mover's win and still puts the moving piece on the goal
\* square; any other accepted make_move leaves the game state UNFINISHED; and
\* the game state changes in no other step.
C4_KingCapture ==
    [][LET moving == get_current_piece_on_square(board, call'[3])
           target == get_current_piece_on_square(board, call'[4])
           king   == IF player_turn = 1 THEN "g" ELSE "G"
           won    == IF player_turn = 1 THEN "WHITE_WON" ELSE "BLACK_WON"
       IN  /\ (call'[1] = "make_move" /\ ret' = "True" /\ get_label(target) = king) =>
                  /\ game_state' = won
                  /\ get_label(get_current_piece_on_square(board', call'[4])) = get_label(moving)
                  /\ get_color(get_current_piece_on_square(board', call'[4])) = MoverColor
                  /\ get_current_piece_on_square(board', call'[3]) = None
           /\ (call'[1] = "make_move" /\ ret' = "True" /\ get_label(target) # king) =>
                  game_state' = "UNFINISHED"
           /\ game_state' # game_state =>
                  /\ game_state = "UNFINISHED"
                  /\ call'[1] = "make_move" /\ ret' = "True"
                  /\ get_label(target) = king]_vars

\* Black has just captured White's king
C4_Witness ==
    /\ game_state = "BLACK_WON" /\ call[1] = "make_move" /\ ret = "True"
    /\ get_color(get_current_piece_on_square(board, call[4])) = "black"
    /\ \A c \in 1..8, r \in 1..8 : get_label(board[c][r]) # "G"

\* C5: an enter_fairy_piece that returns False, at whichever of its checks,
\* changes nothing: not the board, a reserve, a ledger, the turn or the game
\* state.
C5_RejectedEntryChangesNothing ==
    [][(call'[1] = "enter_fairy_piece" /\ ret' = "False") => UNCHANGED game]_vars

\* an entry has just been rejected at the last check of all: the side to move
\* is eligible and the square is good, but the piece asked for is in the
\* reserve no longer
C5_Witness ==
    /\ call[1] = "enter_fairy_piece" /\ ret = "False"
    /\ enter_fairy_piece(Game, call[2], call[4]).out = "fairy piece not available"

\* C6, as the specification states it: with no major piece lost every entry is
\* rejected; with one piece left in the reserve and one major piece lost every
\* entry is rejected; and an eligible side that names an available piece of
\* its own and an empty square of its home ranks is accepted.
C6_AsStated ==
    [][call'[1] = "enter_fairy_piece" =>
          /\ Majors(get_captured_pieces(Mover)) = 0 => ret' = "False"
          /\ (Majors(get_captured_pieces(Mover)) = 1 /\ Len(get_fairy_pieces(Mover)) = 1)
                => ret' = "False"
          /\ (Eligible /\ ValidEntry) => ret' = "True"]_vars

\* C6, amended: the same, the acceptance holding while the game state is
\* UNFINISHED.
C6_EligibilityGating ==
    [][call'[1] = "enter_fairy_piece" =>
          /\ Majors(get_captured_pieces(Mover)) = 0 => ret' = "False"
          /\ (Majors(get_captured_pieces(Mover)) = 1 /\ Len(get_fairy_pieces(Mover)) = 1)
                => ret' = "False"
          /\ (game_state = "UNFINISHED" /\ Eligible /\ ValidEntry) => ret' = "True"]_vars

\* a side has just entered its second fairy piece
C6_Witness ==
    /\ call[1] = "enter_fairy_piece" /\ ret = "True"
    /\ Len(get_fairy_pieces(Waiting)) = 0
    /\ Majors(get_captured_pieces(Waiting)) >= 2

\* C7: the count that gates entry is the number of the side's own captured
\* queens, rooks, bishops and knights.  A side whose ledger holds none of them
\* is rejected, whatever pawns it has lost; a side with one piece entered and
\* one of them lost is rejected, whatever fairy piece it has lost besides; and
\* while the game lasts an entry good in its arguments is accepted exactly
\* when that count exceeds the number of fairy pieces the side has entered.
C7_LossCount ==
    [][call'[1] = "enter_fairy_piece" =>
          LET count   == Majors(get_captured_pieces(Mover))
              entered == 2 - Len(get_fairy_pieces(Mover))
          IN  /\ count = 0 => ret' = "False"
              /\ (count = 1 /\ entered = 1) => ret' = "False"
              /\ (game_state = "UNFINISHED" /\ ValidEntry) =>
                    (ret' = "True" <=> count > entered)]_vars

\* a side that has lost one major piece and the fairy piece it entered, two
\* pieces that are no pawns, has just been refused its second fairy piece on
\* an empty square of its home ranks
C7_Witness ==
    /\ call[1] = "enter_fairy_piece" /\ ret = "False" /\ game_state = "UNFINISHED"
    /\ Len(get_fairy_pieces(Mover)) = 1
    /\ get_label(get_fairy_pieces(Mover)[1]) = call[2]
    /\ Majors(get_captured_pieces(Mover)) = 1
    /\ \E i \in 1..Len(get_captured_pieces(Mover)) :
          Lower(get_label(get_captured_pieces(Mover)[i])) \in {"f", "h"}
    /\ call[4] \in Keys /\ call[4][2] \in HomeRanks
    /\ board[call[4][1]][call[4][2]] = None

\* C8, as the specification states it: an entry is accepted only on a square
\* of the board that is empty and lies on one of the two home ranks of the
\* side to move.
C8_AsStated ==
    [][(call'[1] = "enter_fairy_piece" /\ ret' = "True") =>
          /\ call'[4] \in Keys
          /\ board[call'[4][1]][call'[4][2]] = None
          /\ call'[4][2] \in HomeRanks]_vars

\* C9, as the specification states it: after an accepted entry the cell of the
\* square holds the mover's piece of the kind asked for, the mover's reserve
\* is that piece shorter, and every other cell, the other reserve, both
\* ledgers and the game state are as before.
C9_AsStated ==
    [][(call'[1] = "enter_fairy_piece" /\ ret' = "True") =>
          /\ get_label(get_current_piece_on_square(board', call'[4])) = call'[2]
          /\ get_color(get_current_piece_on_square(board', call'[4])) = MoverColor
          /\ Len(get_fairy_pieces(Mover)) = Len(get_fairy_pieces(Waiting')) + 1
          /\ \A i \in 1..Len(get_fairy_pieces(Waiting')) :
                get_label(get_fairy_pieces(Waiting')[i]) # call'[2]
          /\ \A c \in 1..8, r \in 1..8 :
                <<c, r>> # call'[4] => board'[c][r] = board[c][r]
          /\ get_fairy_pieces(Mover') = get_fairy_pieces(Waiting)
          /\ get_captured_pieces(white') = get_captured_pieces(white)
          /\ get_captured_pieces(black') = get_captured_pieces(black)
          /\ game_state' = game_state]_vars

\* C10: an entry that names a fairy piece of the colour that is not to move is
\* rejected; an accepted entry names a piece of the mover's colour, takes it
\* out of the mover's reserve, and changes no cell but to put that piece
\* there; and no call changes the reserve of the side that is not to move.
C10_OwnColourOnly ==
    [][LET own == IF player_turn = 1 THEN {"F", "H"} ELSE {"f", "h"}
       IN  /\ (call'[1] = "enter_fairy_piece" /\ call'[2] \notin own) => ret' = "False"
           /\ (call'[1] = "enter_fairy_piece" /\ ret' = "True") =>
                  /\ call'[2] \in own
                  /\ \E i \in 1..Len(get_fairy_pieces(Mover)) :
                        get_label(get_fairy_pieces(Mover)[i]) = call'[2]
                  /\ \A i \in 1..Len(get_fairy_pieces(Waiting')) :
                        get_label(get_fairy_pieces(Waiting')[i]) # call'[2]
                  /\ Len(get_fairy_pieces(Waiting')) = Len(get_fairy_pieces(Mover)) - 1
                  /\ \A c \in 1..8, r \in 1..8 :
                        board'[c][r] # board[c][r] =>
                           /\ get_label(board'[c][r]) = call'[2]
                           /\ get_color(board'[c][r]) = MoverColor
           /\ player_turn = 1 => get_fairy_pieces(black') = get_fairy_pieces(black)
           /\ player_turn = -1 => get_fairy_pieces(white') = get_fairy_pieces(white)]_vars

\* Black, eligible and with both fairy pieces in reserve, has just been refused
\* White's falcon on an empty square of Black's home ranks
C10_Witness ==
    /\ call[1] = "enter_fairy_piece" /\ ret = "False" /\ call[2] = "F"
    /\ player_turn = -1 /\ game_state = "UNFINISHED"
    /\ Len(get_fairy_pieces(black)) = 2
    /\ Majors(get_captured_pieces(black)) >= 1
    /\ call[4] \in Keys /\ call[4][2] \in {7, 8}
    /\ board[call[4][1]][call[4][2]] = None

\* the reserve of player p holds a fairy piece with label t
InReserve(p, t) ==
    \E i \in 1..Len(get_fairy_pieces(p)) : get_label(get_fairy_pieces(p)[i]) = t

\* C11: each side has both its kinds in reserve before the first call; an
\* accepted entry takes the kind it names out of the mover's reserve; a kind
\* out of a reserve never comes back, whatever is captured afterwards; and an
\* entry that names a kind not in the mover's reserve is rejected, however
\* many major pieces the mover has lost, as is every entry on an empty
\* reserve.  So a side enters each kind at most once.
C11_EnterOnce ==
    [][/\ call = NoCall =>
             /\ InReserve(white, "F") /\ InReserve(white, "H")
             /\ InReserve(black, "f") /\ InReserve(black, "h")
       /\ \A t \in {"F", "H", "f", "h"} :
             /\ ~InReserve(white, t) => ~InReserve(white', t)
             /\ ~InReserve(black, t) => ~InReserve(black', t)
       /\ (call'[1] = "enter_fairy_piece" /\ ret' = "True") =>
             /\ InReserve(Mover, call'[2])
             /\ ~InReserve(IF player_turn = 1 THEN white' ELSE black', call'[2])
       /\ (call'[1] = "enter_fairy_piece" /\ ~InReserve(Mover, call'[2])) => ret' = "False"
       /\ (call'[1] = "enter_fairy_piece" /\ get_fairy_pieces(Mover) = <<>>) => ret' = "False"]_vars

\* a side that has lost two major pieces and the fairy piece it entered, and
\* still has the other in reserve, has just been refused a second entry of
\* the lost kind on an empty square of its home ranks
C11_Witness ==
    /\ call[1] = "enter_fairy_piece" /\ ret = "False" /\ game_state = "UNFINISHED"
    /\ Len(get_fairy_pieces(Mover)) = 1
    /\ call[2] \in (IF player_turn = 1 THEN {"F", "H"} ELSE {"f", "h"})
    /\ ~InReserve(Mover, call[2])
    /\ Majors(get_captured_pieces(Mover)) >= 2
    /\ \E i \in 1..Len(get_captured_pieces(Mover)) :
          get_label(get_captured_pieces(Mover)[i]) = call[2]
    /\ call[4] \in Keys /\ call[4][2] \in HomeRanks
    /\ board[call[4][1]][call[4][2]] = None

\* sequence s is sequence t with e added at its end
GrowsBy(s, t, e) == s = Append(t, e)

\* C12: each side's reserve starts with two pieces; a step leaves a reserve as
\* it was or, on that side's accepted entry and then only, takes one piece
\* out of it; a step leaves a ledger as it was or, on an accepted make_move
\* onto a piece of that side and then only, adds that piece at its end.
C12_ReserveMonotonicity ==
    [][LET target == get_current_piece_on_square(board, call'[4])
           entry(turn)  == call'[1] = "enter_fairy_piece" /\ ret' = "True" /\ player_turn = turn
           taken(color) == /\ call'[1] = "make_move" /\ ret' = "True"
                           /\ target # None /\ get_color(target) = color
           shrinks(new, old) ==
               /\ Len(new) = Len(old) - 1
               /\ \A i \in 1..Len(new) : \E j \in 1..Len(old) : new[i] = old[j]
       IN  /\ call = NoCall =>
                 Len(get_fairy_pieces(white)) = 2 /\ Len(get_fairy_pieces(black)) = 2
           /\ IF entry(1)
              THEN shrinks(get_fairy_pieces(white'), get_fairy_pieces(white))
              ELSE get_fairy_pieces(white') = get_fairy_pieces(white)
           /\ IF entry(-1)
              THEN shrinks(get_fairy_pieces(black'), get_fairy_pieces(black))
              ELSE get_fairy_pieces(black') = get_fairy_pieces(black)
           /\ IF taken("white")
              THEN GrowsBy(get_captured_pieces(white'), get_captured_pieces(white), target)
              ELSE get_captured_pieces(white') = get_captured_pieces(white)
           /\ IF taken("black")
              THEN GrowsBy(get_captured_pieces(black'), get_captured_pieces(black), target)
              ELSE get_captured_pieces(black') = get_captured_pieces(black)]_vars

\* a move has just been accepted against a side that has lost two pieces or
\* more and has entered one fairy piece
C12_Witness ==
    /\ call[1] = "make_move" /\ ret = "True"
    /\ Len(get_captured_pieces(Mover)) >= 2
    /\ Len(get_fairy_pieces(Mover)) = 1
    /\ get_current_piece_on_square(board, call[4]) # None
    /\ get_color(get_current_piece_on_square(board, call[4])) # MoverColor

\* the number of pieces with label l on board b, and in sequence s
OnBoard(b, l) == Cardinality({sq \in Keys : get_label(b[sq[1]][sq[2]]) = l})

InList(s, l) == Cardinality({i \in 1..Len(s) : get_label(s[i]) = l})

\* how many pieces of a kind a side has in all; k is the lower-case label
InGame(k) == CASE k = "p" -> 8
               [] k \in {"r", "k", "b"} -> 2
               [] OTHER -> 1

\* C13, as the specification states it: each piece is in exactly one place.  For
\* each side and kind, the pieces on the board, in the side's reserve and in
\* the side's ledger are as many as the side has of that kind, and none is in
\* the other side's reserve or ledger.
C13_AsStated ==
    \A k \in {"p", "r", "k", "b", "q", "g", "f", "h"} :
        /\ OnBoard(board, ChessPiece("white", k))
              + InList(get_fairy_pieces(white), ChessPiece("white", k))
              + InList(get_captured_pieces(white), ChessPiece("white", k)) = InGame(k)
        /\ OnBoard(board, ChessPiece("black", k))
              + InList(get_fairy_pieces(black), ChessPiece("black", k))
              + InList(get_captured_pieces(black), ChessPiece("black", k)) = InGame(k)
        /\ InList(get_fairy_pieces(black) \o get_captured_pieces(black),
                  ChessPiece("white", k)) = 0
        /\ InList(get_fairy_pieces(white) \o get_captured_pieces(white),
                  ChessPiece("black", k)) = 0

\* C14, as the specification states it: make_move rejects a call whose start
\* is its goal, whose goal or start is no square of the board, or whose start
\* square is empty.
C14_AsStated ==
    [][(/\ call'[1] = "make_move"
        /\ \/ call'[3] = call'[4]
           \/ call'[4] \notin Keys
           \/ call'[3] \notin Keys
           \/ get_current_piece_on_square(board, call'[3]) = None) => ret' = "False"]_vars

\* C15: make_move rejects whenever the piece on the start square is of the
\* side that is not to move; so the piece on the start square of an accepted
\* make_move is of the side to move, and the piece it leaves on the goal
\* square is too.
C15_OwnPiecesOnly ==
    [][call'[1] = "make_move" =>
          LET moving == get_current_piece_on_square(board, call'[3])
              landed == get_current_piece_on_square(board', call'[4])
          IN  /\ (moving # None /\ get_color(moving) # MoverColor) => ret' = "False"
              /\ ret' = "True" =>
                    /\ moving # None /\ get_color(moving) = MoverColor
                    /\ landed # None => get_color(landed) = MoverColor]_vars

\* a move that the other side could have made has just been rejected because
\* it is not that side's turn
C15_Witness ==
    /\ call[1] = "make_move" /\ ret = "False" /\ game_state = "UNFINISHED"
    /\ get_current_piece_on_square(board, call[3]) # None
    /\ get_color(get_current_piece_on_square(board, call[3])) # MoverColor
    /\ make_move([Game EXCEPT !.player_turn = -player_turn], call[3], call[4]).ret = "True"

\* the number of pieces of a colour on board b
OfColor(b, color) ==
    Cardinality({sq \in Keys : b[sq[1]][sq[2]] # None /\ get_color(b[sq[1]][sq[2]]) = color})

\* C16, as the specification states it: make_move rejects whenever the goal
\* square holds a piece of the mover's colour, and an accepted make_move
\* leaves as many pieces of the mover's colour on the board as there were.
C16_AsStated ==
    [][call'[1] = "make_move" =>
          LET target == get_current_piece_on_square(board, call'[4])
          IN  /\ (target # None /\ get_color(target) = MoverColor) => ret' = "False"
              /\ ret' = "True" => OfColor(board', MoverColor) = OfColor(board, MoverColor)]_vars

\* C17: an accepted make_move onto a piece adds exactly that piece at the end
\* of the ledger of the piece's side, which is not the mover's, and leaves the
\* other ledger alone; an accepted make_move onto no piece leaves both
\* ledgers alone.  White's ledger holds white pieces only and Black's black
\* pieces only.
C17_CaptureRecording ==
    [][LET target == get_current_piece_on_square(board, call'[4])
           lost   == get_captured_pieces(Waiting)
           own    == get_captured_pieces(Mover)
           lost2  == get_captured_pieces(IF player_turn = 1 THEN black' ELSE white')
           own2   == get_captured_pieces(IF player_turn = 1 THEN white' ELSE black')
       IN  /\ (call'[1] = "make_move" /\ ret' = "True") =>
                 /\ own2 = own
                 /\ IF target = None THEN lost2 = lost
                    ELSE get_color(target) # MoverColor /\ lost2 = Append(lost, target)
           /\ \A i \in 1..Len(get_captured_pieces(white')) :
                 get_color(get_captured_pieces(white')[i]) = "white"
           /\ \A i \in 1..Len(get_captured_pieces(black')) :
                 get_color(get_captured_pieces(black')[i]) = "black"]_vars

\* the first capture of a game has just been made: a white piece stands where
\* it took a black one, Black's ledger holds that one piece and White's none
C17_Witness ==
    /\ call[1] = "make_move" /\ ret = "True" /\ player_turn = -1
    /\ Len(get_captured_pieces(black)) = 1 /\ get_captured_pieces(white) = <<>>
    /\ OfColor(board, "black") = 15 /\ OfColor(board, "white") = 16
    /\ get_color(get_current_piece_on_square(board, call[4])) = "white"
    /\ call[4][2] \in {7, 8}

\* C18, as the specification states it: after an accepted make_move the goal
\* cell holds the piece that stood on the start square, the start cell is
\* empty, every other cell is as it was, and so are both reserves.
C18_AsStated ==
    [][(call'[1] = "make_move" /\ ret' = "True") =>
          /\ get_current_piece_on_square(board', call'[4]) # None
          /\ get_label(get_current_piece_on_square(board', call'[4]))
                = get_label(get_current_piece_on_square(board, call'[3]))
          /\ get_current_piece_on_square(board', call'[3]) = None
          /\ \A sq \in Keys :
                (sq # call'[3] /\ sq # call'[4]) => board'[sq[1]][sq[2]] = board[sq[1]][sq[2]]
          /\ get_fairy_pieces(white') = get_fairy_pieces(white)
          /\ get_fairy_pieces(black') = get_fairy_pieces(black)]_vars

\* the standard position, file a to file h: rook, knight 'k', bishop, queen,
\* king 'g', bishop, knight, rook behind eight pawns that have not moved
StandardPosition ==
    LET back == <<"r", "k", "b", "q", "g", "b", "k", "r">>
        up   == <<"R", "K", "B", "Q", "G", "B", "K", "R">>
    IN  [c \in 1..8 |->
            [r \in 1..8 |->
                CASE r = 1 -> up[c]
                  [] r = 2 -> "P"
                  [] r = 7 -> "p"
                  [] r = 8 -> back[c]
                  [] OTHER -> None]]

\* no operation has been accepted yet: the pieces stand as at the start and
\* nothing has left a reserve or entered a ledger
Untouched ==
    /\ Placement(board) = Placement(StandardPosition)
    /\ Len(get_fairy_pieces(white)) = 2 /\ Len(get_fairy_pieces(black)) = 2
    /\ get_captured_pieces(white) = <<>> /\ get_captured_pieces(black) = <<>>

\* C19: before the first call the board is the standard position with no pawn
\* marked as moved, White is to move, the game state is UNFINISHED, each
\* reserve holds the falcon and the hunter of its colour, and both ledgers are
\* empty; and while no operation has been accepted the turn is White's, so
\* the first accepted operation is a move of a white piece.
C19_NewGame ==
    [][/\ call = NoCall =>
             /\ board = StandardPosition
             /\ player_turn = 1 /\ game_state = "UNFINISHED"
             /\ get_fairy_pieces(white) = <<Falcon("white"), Hunter("white")>>
             /\ get_fairy_pieces(black) = <<Falcon("black"), Hunter("black")>>
             /\ get_captured_pieces(white) = <<>> /\ get_captured_pieces(black) = <<>>
       /\ Untouched =>
             /\ player_turn = 1
             /\ ret' = "True" =>
                   /\ call'[1] = "make_move"
                   /\ get_color(get_current_piece_on_square(board, call'[3])) = "white"]_vars

\* White has just made the first accepted move of a game in which Black had
\* tried to move first
C19_Witness ==
    /\ call[1] = "make_move" /\ ret = "True" /\ player_turn = -1
    /\ pending[1] = 3
    /\ get_captured_pieces(white) = <<>> /\ get_captured_pieces(black) = <<>>
    /\ Cardinality({sq \in Keys : get_label(board[sq[1]][sq[2]])
                                     # StandardPosition[sq[1]][sq[2]]}) = 2
    /\ \A c \in 1..8, r \in 7..8 : board[c][r] = StandardPosition[c][r]

\* C20, as the specification states it: an accepted pawn move that changes
\* column goes one column sideways and one rank forward onto a piece of the
\* other side.
C20_AsStated ==
    [][LET moving == get_current_piece_on_square(board, call'[3])
           target == get_current_piece_on_square(board, call'[4])
           forward == IF player_turn = 1 THEN 1 ELSE -1
       IN  (/\ call'[1] = "make_move" /\ ret' = "True"
            /\ get_label(moving) \in {"P", "p"}
            /\ call'[4][1] # call'[3][1]) =>
               /\ Abs(call'[4][1] - call'[3][1]) = 1
               /\ call'[4][2] - call'[3][2] = forward
               /\ target # None /\ get_color(target) # MoverColor]_vars

\* the piece on square sq of board b is a pawn that has completed no move:
\* pawns only go forward, so it is a pawn on the rank it started from
UnmovedPawn(b, sq) ==
    /\ sq \in Keys
    /\ \/ b[sq[1]][sq[2]] \in {"P", "P*"} /\ sq[2] = 2
       \/ b[sq[1]][sq[2]] \in {"p", "p*"} /\ sq[2] = 7

\* the rank one step, and two steps, ahead of rank r for the side to move
Ahead(r, n) == IF player_turn = 1 THEN r + n ELSE r - n

\* C21, as the specification states it: a call that is rejected changes no
\* pawn's flag, so that every pawn that has completed no move is still
\* marked as not moved; a pawn that completes a move is marked as moved; and
\* a pawn that has completed no move is accepted two squares ahead whenever
\* both squares ahead of it are empty.
C21_AsStated ==
    [][/\ ret' = "False" => board' = board
       /\ \A sq \in Keys : UnmovedPawn(board', sq) => first_move(board'[sq[1]][sq[2]])
       /\ (/\ call'[1] = "make_move" /\ ret' = "True" /\ call'[4] \in Keys
           /\ get_label(get_current_piece_on_square(board, call'[3])) \in {"P", "p"})
             => ~first_move(board'[call'[4][1]][call'[4][2]])
       /\ (/\ call'[1] = "make_move" /\ game_state = "UNFINISHED"
           /\ UnmovedPawn(board, call'[3])
           /\ get_color(get_current_piece_on_square(board, call'[3])) = MoverColor
           /\ call'[4] = <<call'[3][1], Ahead(call'[3][2], 2)>>
           /\ board[call'[3][1]][Ahead(call'[3][2], 1)] = None
           /\ board[call'[3][1]][Ahead(call'[3][2], 2)] = None)
             => ret' = "True"]_vars

\* C22, as the specification states it: a move of a pawn of the side to move
\* within its column is accepted exactly when the goal is empty and is one
\* rank ahead, or two ranks ahead with the square between empty and the pawn
\* one that has completed no move.
C22_AsStated ==
    [][LET start  == call'[3]
           goal   == call'[4]
           moving == get_current_piece_on_square(board, start)
       IN  (/\ call'[1] = "make_move" /\ game_state = "UNFINISHED"
            /\ start \in Keys /\ goal \in Keys /\ start[1] = goal[1]
            /\ get_label(moving) \in {"P", "p"} /\ get_color(moving) = MoverColor)
           => (ret' = "True" <=>
                 /\ board[goal[1]][goal[2]] = None
                 /\ \/ goal[2] = Ahead(start[2], 1)
                    \/ /\ goal[2] = Ahead(start[2], 2)
                       /\ UnmovedPawn(board, start)
                       /\ board[start[1]][Ahead(start[2], 1)] = None)]_vars

\* ---- the moves of the pieces ----

Sign(x) == IF x > 0 THEN 1 ELSE IF x < 0 THEN -1 ELSE 0

Max(x, y) == IF x > y THEN x ELSE y

\* start and goal differ and lie on one rank or one file
Straight(start, goal) == (start[1] = goal[1]) # (start[2] = goal[2])

\* start and goal differ and lie on one diagonal
Diagonal(start, goal) ==
    start # goal /\ Abs(goal[1] - start[1]) = Abs(goal[2] - start[2])

\* the squares strictly between two squares of one rank, file or diagonal
Between(start, goal) ==
    LET dc == goal[1] - start[1]
        dr == goal[2] - start[2]
    IN  {<<start[1] + i * Sign(dc), start[2] + i * Sign(dr)>> :
            i \in 1..(Max(Abs(dc), Abs(dr)) - 1)}

Clear(b, start, goal) ==
    \A sq \in Between(start, goal) : b[sq[1]][sq[2]] = None

\* the call that returns is a make_move of the side to move with one of its
\* own pieces of the given labels, to a square of the board that holds no
\* piece of its own
MoveOf(labels) ==
    /\ call'[1] = "make_move"
    /\ call'[3] \in Keys
    /\ call'[4] \in Keys
    /\ call'[3] # call'[4]
    /\ get_label(board[call'[3][1]][call'[3][2]]) \in labels
    /\ get_color(board[call'[3][1]][call'[3][2]]) = MoverColor
    /\ \/ board[call'[4][1]][call'[4][2]] = None
       \/ get_color(board[call'[4][1]][call'[4][2]]) # MoverColor

KnightJump(start, goal) ==
    {Abs(goal[1] - start[1]), Abs(goal[2] - start[2])} = {1, 2}

\* C23 as the claim is worded: a knight's move to a square free of its own
\* men is accepted exactly when it is one square along one axis and two
\* along the other, in whatever state the game is.
C23_AsStated ==
    [][MoveOf({"K", "k"}) =>
        (ret' = "True" <=> KnightJump(call'[3], call'[4]))]_vars

\* C23: while the game is unfinished, a knight's move of the side to move
\* to a square of the board free of its own men is accepted exactly when it
\* is one square along one axis and two along the other, whatever stands
\* around it.
C23_KnightMoves ==
    [][MoveOf({"K", "k"}) /\ game_state = "UNFINISHED" =>
        (ret' = "True" <=> KnightJump(call'[3], call'[4]))]_vars

\* a knight has jumped from between its own men onto an empty square
C23_Witness ==
    /\ call = M(2, 1, 3, 3)
    /\ ret = "True"
    /\ board[3][3] = "K"
    /\ board[2][2] = "P"
    /\ board[3][2] = "P"

\* C24 as the claim is worded: a bishop's move to a square free of its own
\* men is accepted exactly when it runs along a diagonal whose squares in
\* between are empty, in whatever state the game is.
C24_AsStated ==
    [][MoveOf({"B", "b"}) =>
        (ret' = "True" <=> /\ Diagonal(call'[3], call'[4])
                           /\ Clear(board, call'[3], call'[4]))]_vars

\* C24: while the game is unfinished, a bishop's move of the side to move to
\* a square of the board free of its own men is accepted exactly when start
\* and goal differ by the same non-zero number of columns and ranks and every
\* square strictly between them is empty.
C24_BishopMoves ==
    [][MoveOf({"B", "b"}) /\ game_state = "UNFINISHED" =>
        (ret' = "True" <=> /\ Diagonal(call'[3], call'[4])
                           /\ Clear(board, call'[3], call'[4]))]_vars

\* a bishop has been refused a diagonal because of a piece standing on it,
\* and the goal itself held no piece of its own
C24_Witness ==
    /\ call[1] = "make_move"
    /\ ret = "False"
    /\ game_state = "UNFINISHED"
    /\ call[3] \in Keys
    /\ call[4] \in Keys
    /\ get_label(board[call[3][1]][call[3][2]]) \in {"B", "b"}
    /\ get_color(board[call[3][1]][call[3][2]]) = MoverColor
    /\ get_color(board[call[4][1]][call[4][2]]) # MoverColor
    /\ Diagonal(call[3], call[4])
    /\ ~ Clear(board, call[3], call[4])

\* C25 as the claim is worded: a rook's move to a square free of its own men
\* is accepted exactly when it runs along a rank or a file whose squares in
\* between are empty, in whatever state the game is.
C25_AsStated ==
    [][MoveOf({"R", "r"}) =>
        (ret' = "True" <=> /\ Straight(call'[3], call'[4])
                           /\ Clear(board, call'[3], call'[4]))]_vars

\* C25: while the game is unfinished, a rook's move of the side to move to a
\* square of the board free of its own men is accepted exactly when start
\* and goal share exactly one of column and rank and every square strictly
\* between them is empty.
C25_RookMoves ==
    [][MoveOf({"R", "r"}) /\ game_state = "UNFINISHED" =>
        (ret' = "True" <=> /\ Straight(call'[3], call'[4])
                           /\ Clear(board, call'[3], call'[4]))]_vars

\* a rook has been refused a line because of a piece standing on it, and the
\* goal itself held no piece of its own
C25_Witness ==
    /\ call[1] = "make_move"
    /\ ret = "False"
    /\ game_state = "UNFINISHED"
    /\ call[3] \in Keys
    /\ call[4] \in Keys
    /\ get_label(board[call[3][1]][call[3][2]]) \in {"R", "r"}
    /\ get_color(board[call[3][1]][call[3][2]]) = MoverColor
    /\ get_color(board[call[4][1]][call[4][2]]) # MoverColor
    /\ Straight(call[3], call[4])
    /\ ~ Clear(board, call[3], call[4])

\* the return of the call make_move(start, goal) on the present game with
\* the given piece put on the start square
ReturnWith(piece, start, goal) ==
    make_move([Game EXCEPT !.board = update_piece_entered(board, start, piece)],
              start, goal).ret

\* C26: on every board and for every start and goal, make_move accepts a
\* queen's move exactly when it accepts the same move for a bishop or for a
\* rook of the queen's colour put on the start square; and for the side to
\* move in an unfinished game, a queen's move to a square of the board free
\* of its own men is accepted exactly along a rank, file or diagonal whose
\* squares in between are empty.
C26_QueenIsBishopOrRook ==
    [][/\ call'[1] = "make_move" /\ call'[3] \in Keys
          /\ get_label(board[call'[3][1]][call'[3][2]]) \in {"Q", "q"}
          => LET color == get_color(board[call'[3][1]][call'[3][2]])
             IN  ret' = "True" <=>
                    \/ ReturnWith(Bishop(color), call'[3], call'[4]) = "True"
                    \/ ReturnWith(Rook(color), call'[3], call'[4]) = "True"
       /\ MoveOf({"Q", "q"}) /\ game_state = "UNFINISHED" =>
            (ret' = "True" <=>
                /\ Straight(call'[3], call'[4]) \/ Diagonal(call'[3], call'[4])
                /\ Clear(board, call'[3], call'[4]))]_vars

\* a queen has moved several squares along an open rank
C26_Witness ==
    /\ call[1] = "make_move"
    /\ ret = "True"
    /\ call[3] \in Keys
    /\ call[4] \in Keys
    /\ get_label(board[call[4][1]][call[4][2]]) \in {"Q", "q"}
    /\ call[3][2] = call[4][2]
    /\ Abs(call[4][1] - call[3][1]) > 2

\* C27: a king's move of the side to move to another square of the board
\* free of its own men is accepted exactly when the goal is at most one
\* column and at most one rank away; a move of two or more columns or ranks
\* is rejected.
C27_KingMoves ==
    [][MoveOf({"G", "g"}) =>
        (ret' = "True" <=> /\ Abs(call'[4][1] - call'[3][1]) <= 1
                           /\ Abs(call'[4][2] - call'[3][2]) <= 1)]_vars

\* a king has stepped onto the next square, taking the piece that stood
\* there
C27_Witness ==
    /\ call = M(5, 8, 4, 8)
    /\ ret = "True"
    /\ board[4][8] = "g"
    /\ board[5][8] = None
    /\ InList(get_captured_pieces(white), "H") = 1

\* toward the far side of the board, for the side to move
Forward(start, goal) ==
    IF player_turn = 1 THEN goal[2] > start[2] ELSE goal[2] < start[2]

\* toward the own home rank, for the side to move
Backward(start, goal) ==
    IF player_turn = 1 THEN goal[2] < start[2] ELSE goal[2] > start[2]

FalconMove(b, start, goal) ==
    \/ Forward(start, goal) /\ Diagonal(start, goal) /\ Clear(b, start, goal)
    \/ Backward(start, goal) /\ start[1] = goal[1] /\ Clear(b, start, goal)

HunterMove(b, start, goal) ==
    \/ Forward(start, goal) /\ start[1] = goal[1] /\ Clear(b, start, goal)
    \/ Backward(start, goal) /\ Diagonal(start, goal) /\ Clear(b, start, goal)

\* C28 as the claim is worded: a falcon's move to a square free of its own
\* men is accepted exactly when it goes forward along a clear diagonal or
\* backward along its clear file, in whatever state the game is.
C28_AsStated ==
    [][MoveOf({"F", "f"}) =>
        (ret' = "True" <=> FalconMove(board, call'[3], call'[4]))]_vars

\* C28: while the game is unfinished, a falcon's move of the side to move to
\* a square of the board free of its own men is accepted exactly when the
\* goal is forward on a diagonal with every square between empty, or backward
\* in the same column with every square between empty; forward straight,
\* backward diagonal and same-rank moves are rejected.
C28_FalconMoves ==
    [][MoveOf({"F", "f"}) /\ game_state = "UNFINISHED" =>
        (ret' = "True" <=> FalconMove(board, call'[3], call'[4]))]_vars

\* Black's falcon has gone two squares back up its file
C28_Witness ==
    /\ call = M(3, 5, 3, 7)
    /\ ret = "True"
    /\ board[3][7] = "f"
    /\ board[3][5] = None

\* C29 as the claim is worded: a hunter's move to a square free of its own
\* men is accepted exactly when it goes forward along its clear file or
\* backward along a clear diagonal, in whatever state the game is.
C29_AsStated ==
    [][MoveOf({"H", "h"}) =>
        (ret' = "True" <=> HunterMove(board, call'[3], call'[4]))]_vars

\* C29: while the game is unfinished, a hunter's move of the side to move to
\* a square of the board free of its own men is accepted exactly when the
\* goal is forward in the same column with every square between empty, or
\* backward on a diagonal with every square between empty; forward diagonal,
\* backward straight and same-rank moves are rejected.
C29_HunterMoves ==
    [][MoveOf({"H", "h"}) /\ game_state = "UNFINISHED" =>
        (ret' = "True" <=> HunterMove(board, call'[3], call'[4]))]_vars

\* Black's hunter has gone two squares back up a diagonal
C29_Witness ==
    /\ call = M(2, 3, 4, 5)
    /\ ret = "True"
    /\ board[4][5] = "h"
    /\ board[2][3] = None

----------------------------------------------------------------------------
(* The obstruction checks on their own: a board that holds pieces on one    *)
(* line only, and the two checks asked about the two ends of the line, in   *)
(* both orders.                                                             *)

\* the most pieces on the line
MaxPieces == 3

RayDirections ==
    {<<0, 1>>, <<0, -1>>, <<1, 0>>, <<-1, 0>>,
     <<1, 1>>, <<1, -1>>, <<-1, 1>>, <<-1, -1>>}

\* the square i steps from start in direction d
RaySquare(start, d, i) == <<start[1] + i * d[1], start[2] + i * d[2]>>

\* the board with a piece on the steps in O of the line from start
RayBoard(start, d, O) ==
    [c \in 1..8 |->
        [r \in 1..8 |->
            IF \E i \in O : RaySquare(start, d, i) = <<c, r>>
            THEN IF (c + r) % 2 = 0 THEN Rook("white") ELSE Knight("black")
            ELSE None]]

RayInit ==
    /\ white = NewGame.white
    /\ black = NewGame.black
    /\ player_turn = NewGame.player_turn
    /\ game_state = NewGame.game_state
    /\ ret = "None"
    /\ pending = <<0, 0>>
    /\ \E start \in Keys, d \in RayDirections, n \in 1..7 :
        /\ RaySquare(start, d, n) \in Keys
        /\ \E O \in SUBSET (0..n) :
            /\ Cardinality(O) <= MaxPieces
            /\ board = RayBoard(start, d, O)
            /\ call = <<"none", "-", start, RaySquare(start, d, n)>>

\* straight_move_requires_jump(start, goal), for two squares of one rank or
\* file
StraightCheck ==
    /\ call[1] = "none"
    /\ call[3][1] = call[4][1] \/ call[3][2] = call[4][2]
    /\ call' = <<"straight_move_requires_jump", "-", call[3], call[4]>>
    /\ ret' = straight_move_requires_jump(call[3], call[4], board)
    /\ UNCHANGED <<board, white, black, player_turn, game_state, pending>>

\* the same check with start and goal swapped
SwappedStraightCheck ==
    /\ call[1] = "straight_move_requires_jump"
    /\ call[2] = "-"
    /\ call' = <<"straight_move_requires_jump", "swapped", call[4], call[3]>>
    /\ ret' = straight_move_requires_jump(call[4], call[3], board)
    /\ UNCHANGED <<board, white, black, player_turn, game_state, pending>>

\* diagonal_move_requires_jump(start, goal), for two squares of one diagonal
DiagonalCheck ==
    /\ call[1] = "none"
    /\ call[3][1] # call[4][1] /\ call[3][2] # call[4][2]
    /\ call' = <<"diagonal_move_requires_jump", "-", call[3], call[4]>>
    /\ ret' = diagonal_move_requires_jump(call[3], call[4], board)
    /\ UNCHANGED <<board, white, black, player_turn, game_state, pending>>

\* the same check with start and goal swapped
SwappedDiagonalCheck ==
    /\ call[1] = "diagonal_move_requires_jump"
    /\ call[2] = "-"
    /\ call' = <<"diagonal_move_requires_jump", "swapped", call[4], call[3]>>
    /\ ret' = diagonal_move_requires_jump(call[4], call[3], board)
    /\ UNCHANGED <<board, white, black, player_turn, game_state, pending>>

RayNext ==
    \/ StraightCheck
    \/ SwappedStraightCheck
    \/ DiagonalCheck
    \/ SwappedDiagonalCheck

RaySpec == RayInit /\ [][RayNext]_vars

\* C30: for two distinct squares of the board on one rank, file or diagonal,
\* the check of that line answers False (no jump) when every square strictly
\* between them is empty, whatever stands on the two end squares, and True
\* (jump) when a square strictly between them is occupied; and it gives the
\* same answer when start and goal are swapped.
C30_ObstructionSymmetry ==
    [][call'[1] \in {"straight_move_requires_jump", "diagonal_move_requires_jump"} =>
        /\ ret' = IF Clear(board, call'[3], call'[4]) THEN "False" ELSE "True"
        /\ call'[2] = "swapped" => ret' = ret]_vars

\* both checks have been made along a file of at least four squares whose
\* ends are occupied and whose squares in between are not, and both said
\* that no jump is needed
C30_Witness ==
    /\ call[1] = "straight_move_requires_jump"
    /\ call[2] = "swapped"
    /\ ret = "False"
    /\ call[3][1] = call[4][1]
    /\ call[3][2] - call[4][2] >= 3
    /\ board[call[3][1]][call[3][2]] # None
    /\ board[call[4][1]][call[4][2]] # None

----------------------------------------------------------------------------
(* What holds in every state of a game.                                    *)

\* the number of fairy pieces a side has entered so far
Entered(p) == 2 - Len(get_fairy_pieces(p))

\* C31: in every reachable state each side has entered at most as many fairy
\* pieces as it has lost queens, rooks, bishops and knights: a reserve of one
\* means at least one such loss, an empty reserve at least two.
C31_EntriesWithinLosses ==
    /\ Entered(white) <= Majors(get_captured_pieces(white))
    /\ Entered(black) <= Majors(get_captured_pieces(black))

\* a side has entered both its fairy pieces after losing exactly two major
\* pieces
C31_Witness ==
    /\ get_fairy_pieces(black) = <<>>
    /\ Majors(get_captured_pieces(black)) = 2
    /\ OnBoard(board, "f") = 1
    /\ OnBoard(board, "h") = 1

\* C32 as the claim is worded: the game is UNFINISHED exactly when both kings
\* are on the board, WHITE_WON exactly when the black king is in Black's
\* captured ledger and the white king on the board, BLACK_WON exactly when
\* the white king is in White's captured ledger and the black king on the
\* board; and never are both kings captured.
C32_AsStated ==
    /\ game_state = "UNFINISHED" <=>
          OnBoard(board, "G") = 1 /\ OnBoard(board, "g") = 1
    /\ game_state = "WHITE_WON" <=>
          InList(get_captured_pieces(black), "g") = 1 /\ OnBoard(board, "G") = 1
    /\ game_state = "BLACK_WON" <=>
          InList(get_captured_pieces(white), "G") = 1 /\ OnBoard(board, "g") = 1
    /\ ~ (InList(get_captured_pieces(white), "G") >= 1
          /\ InList(get_captured_pieces(black), "g") >= 1)

----------------------------------------------------------------------------
(* The two colours under the mirror of the ranks.                          *)

\* the same piece, or piece tag, of the other colour
OtherColor(l) ==
    CASE l = "P" -> "p" [] l = "K" -> "k" [] l = "B" -> "b" [] l = "R" -> "r"
      [] l = "Q" -> "q" [] l = "G" -> "g" [] l = "F" -> "f" [] l = "H" -> "h"
      [] l = "p" -> "P" [] l = "k" -> "K" [] l = "b" -> "B" [] l = "r" -> "R"
      [] l = "q" -> "Q" [] l = "g" -> "G" [] l = "f" -> "F" [] l = "h" -> "H"
      [] l = "P*" -> "p*" [] l = "p*" -> "P*"
      [] OTHER -> l

\* rank r becomes rank 9 - r
MirrorSquare(sq) == <<sq[1], 9 - sq[2]>>

MirrorBoard(b) == [c \in 1..8 |-> [r \in 1..8 |-> OtherColor(b[c][9 - r])]]

MirrorPlayer(p) ==
    <<[i \in 1..Len(p[1]) |-> OtherColor(p[1][i])],
      [i \in 1..Len(p[2]) |-> OtherColor(p[2][i])]>>

\* the present game with the ranks mirrored and the colours of all pieces,
\* of the side to move and of the winner swapped
MirrorGame ==
    [black |-> MirrorPlayer(white),
     board |-> MirrorBoard(board),
     game_state |-> CASE game_state = "WHITE_WON" -> "BLACK_WON"
                      [] game_state = "BLACK_WON" -> "WHITE_WON"
                      [] OTHER -> game_state,
     player_turn |-> -player_turn,
     white |-> MirrorPlayer(black)]

\* C33: the rules are the same for the two colours under the mirror of the
\* ranks (rank r to 9 - r) with the colours of all pieces and of the side to
\* move swapped: make_move(start, goal) is accepted in a state exactly when
\* make_move(mirror(start), mirror(goal)) is accepted in the mirrored state,
\* and enter_fairy_piece likewise with the other colour's tag.
C33_ColourSymmetry ==
    [][/\ call'[1] = "make_move" /\ call'[3][2] <= 9 /\ call'[4][2] <= 9 =>
            (ret' = "True" <=>
                make_move(MirrorGame, MirrorSquare(call'[3]),
                          MirrorSquare(call'[4])).ret = "True")
       /\ call'[1] = "enter_fairy_piece" /\ call'[4][2] <= 9 =>
            (ret' = "True" <=>
                enter_fairy_piece(MirrorGame, OtherColor(call'[2]),
                                  MirrorSquare(call'[4])).ret = "True")]_vars

\* Black has entered its hunter on rank 7, as White may on rank 2
C33_Witness ==
    /\ call = E("h", 2, 7)
    /\ ret = "True"
    /\ board[2][7] = "h"
    /\ player_turn = 1

\* C34 as the claim is worded: whenever make_move asks the piece on the start
\* square whether a move between two distinct squares of the board is legal,
\* the answer is exactly True or exactly False, never no value.
C34_AsStated ==
    [][/\ call'[1] = "make_move"
       /\ game_state = "UNFINISHED"
       /\ call'[3] \in Keys
       /\ call'[4] \in Keys
       /\ call'[3] # call'[4]
       /\ get_color(board[call'[3][1]][call'[3][2]]) = MoverColor
       => move_legal(board[call'[3][1]][call'[3][2]], call'[3], call'[4], board).ret
              \in {"True", "False"}]_vars

----------------------------------------------------------------------------
(* The walks along a line that the rules of the pieces start.              *)

\* the results of the walks that piece.move_legal(start_square, goal_square)
\* starts on board b: a walk is started when a piece's rule calls one of the
\* two checks and the check enters one of its loops
RayWalks(piece, start_square, goal_square, b) ==
    LET l  == Lower(get_label(piece))
        dc == Column(goal_square) - Column(start_square)
        dr == Row(goal_square) - Row(start_square)
        forward  == IF get_color(piece) = "white" THEN dr > 0 ELSE dr < 0
        backward == IF get_color(piece) = "white" THEN dr < 0 ELSE dr > 0
        diagonal == diagonal_move_requires_jump(start_square, goal_square, b)
        straight == straight_move_requires_jump(start_square, goal_square, b)
        calls_diagonal ==
            \/ l \in {"b", "q"} /\ Abs(dc) = Abs(dr)
            \/ l = "f" /\ forward /\ Abs(dc) = Abs(dr)
            \/ l = "h" /\ backward /\ Abs(dc) = Abs(dr)
        calls_straight ==
            \/ l = "p" /\ first_move(piece) /\ Abs(dr) <= 2 /\ dc = 0
            \/ l = "r" /\ (dc = 0 \/ dr = 0)
            \/ l = "q" /\ (dc = 0 \/ dr = 0)
                       /\ ~ (Abs(dc) = Abs(dr) /\ diagonal = "True")
            \/ l = "f" /\ backward /\ dc = 0
            \/ l = "h" /\ forward /\ dc = 0
    IN  (IF calls_diagonal /\ dc # 0 /\ dr # 0 THEN {diagonal} ELSE {})
        \cup (IF calls_straight /\ (dc # 0 \/ dr # 0) THEN {straight} ELSE {})

\* the call is a make_move that gets as far as asking the piece on the start
\* square for the legality of the move
AsksPiece ==
    /\ call'[1] = "make_move"
    /\ game_state = "UNFINISHED"
    /\ call'[3] # call'[4]
    /\ Column(call'[4]) \in 1..8
    /\ Row(call'[4]) \in 1..8
    /\ get_current_piece_on_square(board, call'[3]) # None
    /\ get_color(get_current_piece_on_square(board, call'[3])) = MoverColor

\* C35 as the claim is worded: for every start and goal that pass make_move's
\* earlier checks, every walk that the piece's rule starts ends on the goal
\* square (answer False) or on an occupied square (answer True), and so
\* within the board; it never runs out at or past the edge of the board
\* (no answer).
C35_AsStated ==
    [][AsksPiece =>
        RayWalks(get_current_piece_on_square(board, call'[3]),
                 call'[3], call'[4], board) \subseteq {"True", "False"}]_vars

====
